---- MODULE Spec2Model ----
(***************************************************************************)
(* Payment confirmation and entitlement reconciliation of the survey       *)
(* application (server.js, database.js).  Every request handler is an      *)
(* action; the two reconciliation handlers (GET /api/checkout/confirm and  *)
(* POST /api/stripe-webhook) are split at their awaited store operations,  *)
(* so that concurrent requests interleave exactly where Node lets them.    *)
(***************************************************************************)
EXTENDS Integers, Sequences, FiniteSets, TLC

\* ------------------------------------------------------------------ bounds
\* Number of checkout sessions the payment provider holds at most.
MaxCheckouts == 2
\* Number of reconciliation requests that can be in flight at once.
NumSlots == 2

\* ------------------------------------------------------------------ inputs
Emails == {"a@x.com", "b@x.com"}
\* an address typed with a capital letter
MixedCaseEmails == {"A@x.com"}
\* every text a request can carry as an email and a users row can hold
EmailTexts == Emails \cup MixedCaseEmails
Passwords == {"pw1", "pw2"}
PackageTypes == {"form-filling", "full"}
Methods == {"card", "ach"}
Clients == {"browser"}
SessionIds == 1..MaxCheckouts
Slots == 1..NumSlots
NoEmail == "none"

\* ------------------------------------------------------- program constants
FormFillingPrice == 29900
UpgradePrice == 130000
FullPrice == 159900
AchFee == 50
CardFeePercent == 3
\* amount of a checkout created at the provider outside this server
DirectAmount == 5000
\* amount posted to /api/record-payment
ManualAmount == 100
\* most sections a survey page has
MaxSections == 5

\* acked: the sessions whose paid completion event the webhook endpoint has
\* handled and answered with 200, as the provider's delivery log records it;
\* form: the survey form of the browser tab and its localStorage entry
VARIABLES users, payments, migrated, checkout, session, tokens, inflight, last,
          acked, form

vars == <<users, payments, migrated, checkout, session, tokens, inflight, last,
          acked, form>>

\* ------------------------------------------------------------------ store
\* users table: one row per email (email TEXT UNIQUE); a missing row has
\* exists = FALSE.  paid DEFAULT FALSE, package_type DEFAULT 'full'.
NoUser == [exists |-> FALSE, paid |-> FALSE, package_type |-> "none",
           password_hash |-> "none"]
NewUser == [exists |-> TRUE, paid |-> FALSE, package_type |-> "full",
            password_hash |-> "none"]

\* the SurveyForm of a browser tab together with the localStorage entry the
\* form saves under; sections is the number of .form-section elements of
\* the page, numbered 1..sections by data-section; stored is the saved
\* currentSection, 0 when localStorage holds no entry
NoForm == [open |-> FALSE, sections |-> 0, totalSteps |-> 1,
           currentStep |-> 1, stored |-> 0]

\* session.user of a cookie session; email = NoEmail when nobody is logged in
NoSessionUser == [email |-> NoEmail, paid |-> FALSE, packageType |-> "null"]

NoCheckout ==
    [exists |-> FALSE, payment_status |-> "none", method |-> "none",
     client_reference_id |-> NoEmail, meta_email |-> NoEmail,
     package_type |-> "none", base_price |-> << >>,
     processing_fee |-> << >>,
     amount_total |-> 0]

Idle == [kind |-> "idle", pc |-> "idle", sid |-> 0, client |-> "none",
         sessEmail |-> NoEmail, pstatus |-> "none"]

\* the response sent by the latest step; op = "none" when the step sent none
NoResp == [op |-> "none", code |-> 0, paid |-> FALSE, email |-> NoEmail,
           pkg |-> "none", sid |-> 0, user |-> FALSE]

Resp(op, code, paid, email, pkg, sid, user) ==
    [op |-> op, code |-> code, paid |-> paid, email |-> email,
     pkg |-> pkg, sid |-> sid, user |-> user]

\* rows of payments whose stripe_session_id is sid
RowsOf(rows, sid) == {i \in 1..Len(rows) : rows[i].stripe_session_id = sid}

\* rows of payments owned by email
RowsOfEmail(rows, email) == {i \in 1..Len(rows) : rows[i].user_email = email}

\* an update that writes paid and leaves package_type as it is
SetEntitlementPaidOnly(tbl, email, paid, pkg) ==
    [e \in EmailTexts |->
        IF e = email /\ tbl[e].exists
        THEN [tbl[e] EXCEPT !.paid = paid]
        ELSE tbl[e]]

\* UPDATE users SET paid = $1, package_type = $2 WHERE email = $3
SetEntitlement(tbl, email, paid, pkg) ==
    [e \in EmailTexts |->
        IF e = email /\ tbl[e].exists
        THEN [tbl[e] EXCEPT !.paid = paid, !.package_type = pkg]
        ELSE tbl[e]]

\* an insert that checks the foreign key but no uniqueness of the session id
InsertAcceptedNoUnique(rows, tbl, row) ==
    /\ row.user_email \in EmailTexts
    /\ tbl[row.user_email].exists

\* INSERT INTO payments: refused when stripe_session_id is already stored
\* (UNIQUE) or user_email is no users row (FOREIGN KEY); appended otherwise.
InsertAccepted(rows, tbl, row) ==
    /\ RowsOf(rows, row.stripe_session_id) = {}
    /\ row.user_email \in EmailTexts
    /\ tbl[row.user_email].exists

\* an insert that overwrites the stored row of the same session id
InsertPaymentUpsert(rows, tbl, row) ==
    IF InsertAccepted(rows, tbl, row) THEN Append(rows, row)
    ELSE [i \in 1..Len(rows) |->
            IF rows[i].stripe_session_id = row.stripe_session_id
            THEN row ELSE rows[i]]

\* an insert that brings the status of the stored row of the same session
\* id up to date
InsertPaymentRefresh(rows, tbl, row) ==
    IF InsertAccepted(rows, tbl, row) THEN Append(rows, row)
    ELSE [i \in 1..Len(rows) |->
            IF rows[i].stripe_session_id = row.stripe_session_id
            THEN [rows[i] EXCEPT !.status = row.status] ELSE rows[i]]

\* an insert that appends whenever the owner exists
InsertPaymentAlways(rows, tbl, row) ==
    IF InsertAcceptedNoUnique(rows, tbl, row) THEN Append(rows, row)
    ELSE rows

InsertPayment(rows, tbl, row) ==
    IF InsertAccepted(rows, tbl, row) THEN Append(rows, row) ELSE rows

\* a status update that flips the status of the rows of sid
CompletePaymentToggle(rows, sid) ==
    [i \in 1..Len(rows) |->
        IF rows[i].stripe_session_id = sid
        THEN [rows[i] EXCEPT !.status =
                 IF rows[i].status = "completed" THEN "processing"
                 ELSE "completed"]
        ELSE rows[i]]

\* a status update that puts the rows of sid back to processing
CompletePaymentReopen(rows, sid) ==
    [i \in 1..Len(rows) |->
        IF rows[i].stripe_session_id = sid
        THEN [rows[i] EXCEPT !.status = "processing"]
        ELSE rows[i]]

\* UPDATE payments SET status = 'completed' WHERE stripe_session_id = sid
CompletePayment(rows, sid) ==
    [i \in 1..Len(rows) |->
        IF rows[i].stripe_session_id = sid
        THEN [rows[i] EXCEPT !.status = "completed"]
        ELSE rows[i]]

Init ==
    /\ users = [e \in EmailTexts |-> NoUser]
    /\ payments = << >>
    /\ migrated = FALSE
    /\ checkout = [s \in SessionIds |-> NoCheckout]
    /\ session = [c \in Clients |-> NoSessionUser]
    /\ tokens = {}
    /\ inflight = [r \in Slots |-> Idle]
    /\ last = NoResp
    /\ acked = {}
    /\ form = NoForm

\* ------------------------------------------------------------------ accounts
\* a normalisation that keeps the letters as typed
ToLowerCaseIdentity(t) == t

\* email.toLowerCase()
ToLowerCase(t) == IF t = "A@x.com" THEN "a@x.com" ELSE t

\* bcrypt.hash(password, 10) and bcrypt.compare(password, hash)
BcryptHash(pw) == IF pw = "pw1" THEN "hash1" ELSE "hash2"
BcryptCompare(pw, hash) == hash = BcryptHash(pw)

\* POST /api/register with body {email, password}; the INSERT is refused
\* (23505) when the lower-cased email is already a users row
Register(c, email, pw) ==
    /\ LET e == ToLowerCase(email)
       IN IF users[e].exists
          THEN /\ last' = Resp("register", 400, FALSE, email, "none", 0, FALSE)
               /\ UNCHANGED <<users, session, tokens>>
          ELSE /\ users' = [users EXCEPT ![e] =
                     [NewUser EXCEPT !.password_hash = BcryptHash(pw)]]
               /\ session' = [session EXCEPT ![c] =
                     [email |-> e, paid |-> FALSE, packageType |-> "null"]]
               /\ tokens' = tokens \cup {e}
               /\ last' = Resp("register", 200, FALSE, e, "none", 0, TRUE)
    /\ UNCHANGED <<acked, form>>
    /\ UNCHANGED <<payments, migrated, checkout, inflight>>

\* POST /api/login with body {email, password}
Login(c, email, pw) ==
    /\ LET e == ToLowerCase(email)
       IN IF ~users[e].exists
          THEN /\ last' = Resp("login", 404, FALSE, email, "none", 0, FALSE)
               /\ UNCHANGED <<session, tokens>>
          ELSE IF ~BcryptCompare(pw, users[e].password_hash)
          THEN /\ last' = Resp("login", 401, FALSE, email, "none", 0, FALSE)
               /\ UNCHANGED <<session, tokens>>
          ELSE /\ session' = [session EXCEPT ![c] =
                     [email |-> e, paid |-> users[e].paid,
                      packageType |-> users[e].package_type]]
               /\ tokens' = tokens \cup {e}
               /\ last' = Resp("login", 200, FALSE, e, "none", 0, TRUE)
    /\ UNCHANGED <<acked, form>>
    /\ UNCHANGED <<users, payments, migrated, checkout, inflight>>

\* POST /api/logout
Logout(c) ==
    /\ session' = [session EXCEPT ![c] = NoSessionUser]
    /\ last' = Resp("logout", 200, FALSE, NoEmail, "none", 0, FALSE)
    /\ UNCHANGED <<acked, form>>
    /\ UNCHANGED <<users, payments, migrated, checkout, tokens, inflight>>

\* ------------------------------------------------------------------ pricing
\* Math.round(base * 0.03)
CardFee(base) == (base * CardFeePercent + 50) \div 100

\* base price by package type and the caller's (session) paid flag
BasePrice(pkg, callerPaid) ==
    IF pkg = "form-filling"
    THEN (IF callerPaid THEN UpgradePrice ELSE FormFillingPrice)
    ELSE FullPrice

\* the flat bank-transfer fee charged for every method
ProcessingFeeFlat(base, method) == AchFee

ProcessingFee(base, method) ==
    IF method = "card" THEN CardFee(base)
    ELSE IF method = "ach" THEN AchFee
    ELSE 0

TotalPrice(base, method) == base + ProcessingFee(base, method)

\* the decimal digits of a non-negative integer, most significant first
RECURSIVE Digits(_)
Digits(n) == IF n < 10 THEN <<n>> ELSE Append(Digits(n \div 10), n % 10)

\* a rendering of an amount of cents in whole dollars
NumberToStringDollars(n) == Digits(n \div 100)

\* Number.prototype.toString() of a non-negative integer: its decimal digits
NumberToString(n) == Digits(n)

\* parseInt(text) of a digit text
RECURSIVE ParseInt(_)
ParseInt(ds) ==
    IF Len(ds) = 0 THEN 0
    ELSE 10 * ParseInt(SubSeq(ds, 1, Len(ds) - 1)) + ds[Len(ds)]

\* parseInt(checkout.metadata?.<key> || '0'); an absent key is << >>
MetadataInt(ds) == IF ds = << >> THEN ParseInt(<<0>>) ELSE ParseInt(ds)

\* a session created with the caller's email as client_reference_id only
NewCheckoutNoMetadataEmail(email, pkg, method, callerPaid) ==
    [exists |-> TRUE, payment_status |-> "unpaid", method |-> method,
     client_reference_id |-> email, meta_email |-> NoEmail,
     package_type |-> pkg,
     base_price |-> NumberToString(BasePrice(pkg, callerPaid)),
     processing_fee |->
        NumberToString(ProcessingFee(BasePrice(pkg, callerPaid), method)),
     amount_total |-> TotalPrice(BasePrice(pkg, callerPaid), method)]

\* the session object stripe.checkout.sessions.create is asked for
NewCheckout(email, pkg, method, callerPaid) ==
    [exists |-> TRUE, payment_status |-> "unpaid", method |-> method,
     client_reference_id |-> email, meta_email |-> email,
     package_type |-> pkg,
     base_price |-> NumberToString(BasePrice(pkg, callerPaid)),
     processing_fee |->
        NumberToString(ProcessingFee(BasePrice(pkg, callerPaid), method)),
     amount_total |-> TotalPrice(BasePrice(pkg, callerPaid), method)]

FreeSids == {s \in SessionIds : ~checkout[s].exists}
NextSid == CHOOSE s \in FreeSids : \A t \in FreeSids : s <= t

\* POST /api/create-checkout-session; bearer is the email of the bearer
\* token presented (NoEmail: none or an invalid one)
CreateCheckoutSession(c, bearer, pkg, method, sid) ==
    /\ bearer \in tokens \cup {NoEmail}
    /\ LET sessionUser == session[c]
           userEmail == IF sessionUser.email # NoEmail THEN sessionUser.email
                        ELSE bearer
           callerPaid == sessionUser.email # NoEmail /\ sessionUser.paid
       IN IF userEmail = NoEmail
          THEN /\ last' = Resp("create-checkout", 401, FALSE, NoEmail,
                               "none", 0, FALSE)
               /\ UNCHANGED checkout
          ELSE /\ FreeSids # {} /\ sid = NextSid
               /\ checkout' = [checkout EXCEPT ![sid] =
                     NewCheckout(userEmail, pkg, method, callerPaid)]
               /\ last' = Resp("create-checkout", 200, FALSE, userEmail,
                               "none", sid, FALSE)
    /\ UNCHANGED <<acked, form>>
    /\ UNCHANGED <<users, payments, migrated, session, tokens, inflight>>

\* ------------------------------------------------------------------ provider
\* a checkout session created at the provider without this server, carrying
\* neither client_reference_id nor metadata
ProviderDirectCheckout(method, sid) ==
    /\ FreeSids # {} /\ sid = NextSid
    /\ checkout' = [checkout EXCEPT ![sid] =
          [NoCheckout EXCEPT !.exists = TRUE, !.payment_status = "unpaid",
                             !.method = method,
                             !.amount_total = DirectAmount]]
    /\ last' = NoResp
    /\ UNCHANGED <<acked, form>>
    /\ UNCHANGED <<users, payments, migrated, session, tokens, inflight>>

\* a checkout session of this provider account that names an email but was
\* not priced by /api/create-checkout-session (a payment link, a discounted
\* or hand-made session): package, price metadata and amount as given, an
\* absent metadata key being "none" or << >>
ProviderCustomCheckout(sid, email, pkg, method, base, fee, amount) ==
    /\ FreeSids # {} /\ sid = NextSid
    /\ checkout' = [checkout EXCEPT ![sid] =
          [exists |-> TRUE, payment_status |-> "unpaid", method |-> method,
           client_reference_id |-> email, meta_email |-> NoEmail,
           package_type |-> pkg, base_price |-> base,
           processing_fee |-> fee, amount_total |-> amount]]
    /\ last' = NoResp
    /\ UNCHANGED <<acked, form>>
    /\ UNCHANGED <<users, payments, migrated, session, tokens, inflight>>

\* the payment status the provider moves a session to next: a card is
\* captured at once, a bank transfer is first processing and settles later
NextStatus(co) ==
    IF co.payment_status = "unpaid"
    THEN (IF co.method = "ach" THEN "processing" ELSE "paid")
    ELSE "paid"

ProviderAdvance(sid) ==
    /\ checkout[sid].exists
    /\ checkout[sid].payment_status # "paid"
    /\ checkout' = [checkout EXCEPT ![sid].payment_status =
                       NextStatus(checkout[sid])]
    /\ last' = NoResp
    /\ UNCHANGED <<acked, form>>
    /\ UNCHANGED <<users, payments, migrated, session, tokens, inflight>>

\* ------------------------------------------------------------------ confirm
IsAchPayment(co) == co.method = "ach"

\* acceptance that forgets the bank-transfer condition
EligibleAnyMethod(co, st) == st \in {"paid", "processing", "unpaid"}

\* isPaid || isAchProcessing || isAchUnpaid, for provider status st
Eligible(co, st) ==
    \/ st = "paid"
    \/ IsAchPayment(co) /\ st = "processing"
    \/ IsAchPayment(co) /\ st = "unpaid"

\* email resolution that defaults a missing email to a placeholder
PaidEmailPlaceholder(co) ==
    IF co.client_reference_id # NoEmail THEN co.client_reference_id
    ELSE IF co.meta_email # NoEmail THEN co.meta_email
    ELSE "a@x.com"

\* checkout.client_reference_id || checkout.metadata.email
PaidEmail(co) ==
    IF co.client_reference_id # NoEmail THEN co.client_reference_id
    ELSE co.meta_email

\* checkout.metadata?.package_type || 'full'
PackageOf(co) ==
    IF co.package_type = "none" THEN "full" ELSE co.package_type

\* a classification that refuses an amount it cannot explain
PaymentTypeStrict(pkg, amountPaid, basePrice, processingFee) ==
    IF amountPaid = basePrice + processingFee THEN "initial"
    ELSE IF pkg = "full" /\ amountPaid = UpgradePrice + processingFee
    THEN "upgrade"
    ELSE "rejected"

PaymentType(pkg, amountPaid, basePrice, processingFee) ==
    IF pkg = "form-filling" /\ amountPaid = basePrice + processingFee
    THEN "initial"
    ELSE IF pkg = "full" /\ amountPaid = basePrice + processingFee
    THEN "initial"
    ELSE IF pkg = "full" /\ amountPaid = UpgradePrice + processingFee
    THEN "upgrade"
    ELSE "initial"

\* a status that ignores pending bank transfers
PaymentStatusCompleted(co, st) == "completed"

\* (isAchProcessing || isAchUnpaid) ? 'processing' : 'completed'
PaymentStatus(co, st) ==
    IF IsAchPayment(co) /\ st \in {"processing", "unpaid"}
    THEN "processing" ELSE "completed"

\* the row confirm inserts for session sid read with provider status st
ConfirmRow(sid, co, st) ==
    [user_email |-> PaidEmail(co), stripe_session_id |-> sid,
     amount_cents |-> co.amount_total, package_type |-> PackageOf(co),
     payment_type |-> PaymentType(PackageOf(co), co.amount_total,
                                  MetadataInt(co.base_price),
                                  MetadataInt(co.processing_fee)),
     status |-> PaymentStatus(co, st)]

\* early answers that take the session object without a retrieval result
ConfirmEarlyUnchecked(sid) ==
    LET co == checkout[sid]
    IN IF ~Eligible(co, co.payment_status)
       THEN Resp("confirm", 200, FALSE, NoEmail, "none", sid, FALSE)
       ELSE IF PaidEmail(co) = NoEmail
       THEN Resp("confirm", 200, TRUE, NoEmail, "none", sid, FALSE)
       ELSE NoResp

\* the answers confirm gives before it touches the store: retrieve threw
\* (500), status not accepted (paid: false), no email on the checkout
\* (paid: true, no token, no user); NoResp when it goes on to the store
ConfirmEarly(sid) ==
    LET co == checkout[sid]
    IN IF ~co.exists
       THEN Resp("confirm", 500, FALSE, NoEmail, "none", sid, FALSE)
       ELSE IF ~Eligible(co, co.payment_status)
       THEN Resp("confirm", 200, FALSE, NoEmail, "none", sid, FALSE)
       ELSE IF PaidEmail(co) = NoEmail
       THEN Resp("confirm", 200, TRUE, NoEmail, "none", sid, FALSE)
       ELSE NoResp

\* res.json({success: true, paid: true, token, user: {email, paid, packageType}})
ConfirmAnswer(sid) ==
    Resp("confirm", 200, TRUE, PaidEmail(checkout[sid]),
         PackageOf(checkout[sid]), sid, TRUE)

\* a refresh of whatever session user the caller has
RefreshSessionAnyUser(sess, c, sessEmail, paidEmail, pkg) ==
    IF sessEmail # NoEmail
    THEN [sess EXCEPT ![c].paid = TRUE, ![c].packageType = pkg]
    ELSE sess

\* the session refresh of confirm: only for a session user whose email is
\* the email of the checkout
RefreshSession(sess, c, sessEmail, paidEmail, pkg) ==
    IF sessEmail # NoEmail /\ sessEmail = paidEmail
    THEN [sess EXCEPT ![c] =
            [email |-> paidEmail, paid |-> TRUE, packageType |-> pkg]]
    ELSE sess

\* GET /api/checkout/confirm, run to completion
Confirm(c, sid) ==
    /\ \A r \in Slots : inflight[r] = Idle
    /\ IF ConfirmEarly(sid) # NoResp
       THEN /\ last' = ConfirmEarly(sid)
            /\ UNCHANGED <<users, payments, session, tokens>>
       ELSE LET co == checkout[sid]
            IN /\ payments' = InsertPayment(payments, users,
                                 ConfirmRow(sid, co, co.payment_status))
               /\ users' = SetEntitlement(users, PaidEmail(co), TRUE,
                                          PackageOf(co))
               /\ tokens' = tokens \cup {PaidEmail(co)}
               /\ session' = RefreshSession(session, c, session[c].email,
                                            PaidEmail(co), PackageOf(co))
               /\ last' = ConfirmAnswer(sid)
    /\ UNCHANGED <<acked, form>>
    /\ UNCHANGED <<migrated, checkout, inflight>>

\* a new request is served in the first idle slot
FirstIdle(r) ==
    /\ inflight[r] = Idle
    /\ \A q \in Slots : q < r => inflight[q] # Idle

\* res.status(500).json({success: false, error: 'Failed to confirm payment'})
ConfirmFailed(sid) == Resp("confirm", 500, FALSE, NoEmail, "none", sid, FALSE)

\* confirm split at its awaits.  Request arrival and
\* stripe.checkout.sessions.retrieve(session_id); answered tells whether the
\* provider could be reached (the call throws when it could not, as it does
\* for an unknown session id)
ConfirmRetrieve(r, c, sid, answered) ==
    /\ FirstIdle(r)
    /\ IF ~answered
       THEN /\ last' = ConfirmFailed(sid)
            /\ UNCHANGED inflight
       ELSE IF ConfirmEarly(sid) # NoResp
       THEN /\ last' = ConfirmEarly(sid)
            /\ UNCHANGED inflight
       ELSE /\ inflight' = [inflight EXCEPT ![r] =
                  [kind |-> "confirm", pc |-> "insert", sid |-> sid,
                   client |-> c, sessEmail |-> session[c].email,
                   pstatus |-> checkout[sid].payment_status]]
            /\ last' = NoResp
    /\ UNCHANGED <<acked, form>>
    /\ UNCHANGED <<users, payments, migrated, checkout, session, tokens>>

\* INSERT INTO payments (with the fallback insert of the old schema); every
\* insert error is caught: a duplicate counts as recorded, any other is
\* dropped, and the handler goes on to the users update
ConfirmInsert(r) ==
    /\ inflight[r].kind = "confirm" /\ inflight[r].pc = "insert"
    /\ payments' = InsertPayment(payments, users,
          ConfirmRow(inflight[r].sid, checkout[inflight[r].sid],
                     inflight[r].pstatus))
    /\ inflight' = [inflight EXCEPT ![r].pc = "update"]
    /\ last' = NoResp
    /\ UNCHANGED <<acked, form>>
    /\ UNCHANGED <<users, migrated, checkout, session, tokens>>

\* UPDATE users SET paid = true, package_type; jwt.sign; session refresh;
\* response
ConfirmUpdate(r) ==
    /\ inflight[r].kind = "confirm" /\ inflight[r].pc = "update"
    /\ LET co == checkout[inflight[r].sid]
       IN /\ users' = SetEntitlement(users, PaidEmail(co), TRUE,
                                     PackageOf(co))
          /\ tokens' = tokens \cup {PaidEmail(co)}
          /\ session' = RefreshSession(session, inflight[r].client,
                                       inflight[r].sessEmail, PaidEmail(co),
                                       PackageOf(co))
          /\ last' = ConfirmAnswer(inflight[r].sid)
    /\ inflight' = [inflight EXCEPT ![r] = Idle]
    /\ UNCHANGED <<acked, form>>
    /\ UNCHANGED <<payments, migrated, checkout>>

\* ------------------------------------------------------------------ webhook
\* the branch of 'checkout.session.completed' that touches the store: the
\* delivered session is a paid bank transfer that names an email
WebhookApplies(etype, co) ==
    /\ etype = "checkout.session.completed"
    /\ co.payment_status = "paid"
    /\ IsAchPayment(co)
    /\ PaidEmail(co) # NoEmail

EventTypes == {"checkout.session.completed", "payment_intent.succeeded"}

\* {received: true}; paid tells whether the store branch ran
WebhookAnswer(sid, applied) ==
    Resp("webhook", 200, applied, NoEmail, "none", sid, FALSE)

\* a verification that lets every signature through
ConstructEventAcceptsAll(signed) == TRUE

\* stripe.webhooks.constructEvent(req.body, sig, secret) returns the event
\* when the signature header was computed over the body with the webhook
\* secret (signed) and throws otherwise
ConstructEventAccepts(signed) == signed

\* the session object of a delivery that does not come from the provider:
\* whatever its sender wrote, here a paid bank transfer naming email
ForgedObject(email, pkg) ==
    [NewCheckout(email, pkg, "ach", FALSE) EXCEPT !.payment_status = "paid"]

\* res.status(400).send('Webhook Error: ...')
WebhookRejected(sid) ==
    Resp("webhook", 400, FALSE, NoEmail, "none", sid, FALSE)

\* POST /api/stripe-webhook, run to completion, for a delivery about session
\* sid that carries the session object obj; a delivery signed by the
\* provider carries the provider's own session object
Webhook(sid, etype, signed, obj) ==
    /\ \A r \in Slots : inflight[r] = Idle
    /\ signed => (checkout[sid].exists /\ obj = checkout[sid])
    /\ IF ~ConstructEventAccepts(signed)
       THEN /\ last' = WebhookRejected(sid)
            /\ UNCHANGED <<users, payments>>
       ELSE IF WebhookApplies(etype, obj)
       THEN /\ users' = SetEntitlement(users, PaidEmail(obj), TRUE,
                                       PackageOf(obj))
            /\ payments' = CompletePayment(payments, sid)
            /\ last' = WebhookAnswer(sid, TRUE)
       ELSE /\ last' = WebhookAnswer(sid, FALSE)
            /\ UNCHANGED <<users, payments>>
    /\ acked' = IF ConstructEventAccepts(signed) /\ WebhookApplies(etype, obj)
                THEN acked \cup {sid} ELSE acked
    /\ UNCHANGED form
    /\ UNCHANGED <<migrated, checkout, session, tokens, inflight>>

\* the webhook split at its awaits.  Delivery and constructEvent; the body is
\* the provider's session object, with or without a valid signature
WebhookReceive(r, sid, etype, signed) ==
    /\ FirstIdle(r)
    /\ checkout[sid].exists
    /\ IF ~ConstructEventAccepts(signed)
       THEN /\ last' = WebhookRejected(sid)
            /\ UNCHANGED inflight
       ELSE IF WebhookApplies(etype, checkout[sid])
       THEN /\ inflight' = [inflight EXCEPT ![r] =
                  [kind |-> "webhook", pc |-> "hookUser", sid |-> sid,
                   client |-> "none", sessEmail |-> NoEmail,
                   pstatus |-> checkout[sid].payment_status]]
            /\ last' = NoResp
       ELSE /\ last' = WebhookAnswer(sid, FALSE)
            /\ UNCHANGED inflight
    /\ UNCHANGED <<acked, form>>
    /\ UNCHANGED <<users, payments, migrated, checkout, session, tokens>>

\* UPDATE users SET paid = true, package_type
WebhookUpdateUser(r) ==
    /\ inflight[r].kind = "webhook" /\ inflight[r].pc = "hookUser"
    /\ users' = SetEntitlement(users, PaidEmail(checkout[inflight[r].sid]),
                               TRUE, PackageOf(checkout[inflight[r].sid]))
    /\ inflight' = [inflight EXCEPT ![r].pc = "hookPayment"]
    /\ last' = NoResp
    /\ UNCHANGED <<acked, form>>
    /\ UNCHANGED <<payments, migrated, checkout, session, tokens>>

\* UPDATE payments SET status = 'completed'; res.json({received: true})
WebhookUpdatePayment(r) ==
    /\ inflight[r].kind = "webhook" /\ inflight[r].pc = "hookPayment"
    /\ payments' = CompletePayment(payments, inflight[r].sid)
    /\ last' = WebhookAnswer(inflight[r].sid, TRUE)
    /\ inflight' = [inflight EXCEPT ![r] = Idle]
    /\ acked' = acked \cup {inflight[r].sid}
    /\ UNCHANGED form
    /\ UNCHANGED <<users, migrated, checkout, session, tokens>>

\* ------------------------------------------------------------ manual store
\* POST /api/record-payment: one INSERT naming the payment_method columns,
\* which fails on the schema initDatabase creates until it is migrated
RecordPayment(e, sid, amount, pkg, ptype) ==
    /\ LET row == [user_email |-> e, stripe_session_id |-> sid,
                   amount_cents |-> amount, package_type |-> pkg,
                   payment_type |-> ptype, status |-> "completed"]
       IN IF migrated /\ InsertAccepted(payments, users, row)
          THEN /\ payments' = Append(payments, row)
               /\ last' = Resp("record-payment", 200, FALSE, e, "none", sid,
                               FALSE)
          ELSE /\ last' = Resp("record-payment", 500, FALSE, e, "none", sid,
                               FALSE)
               /\ UNCHANGED payments
    /\ UNCHANGED <<acked, form>>
    /\ UNCHANGED <<users, migrated, checkout, session, tokens, inflight>>

\* POST /api/update-user-payment with body {email, paid, packageType}
UpdateUserPayment(e, paid, pkg) ==
    /\ IF e = NoEmail
       THEN /\ last' = Resp("update-user-payment", 400, FALSE, e, "none", 0,
                            FALSE)
            /\ UNCHANGED users
       ELSE /\ users' = SetEntitlement(users, e, paid, pkg)
            /\ last' = Resp("update-user-payment", 200, paid, e, pkg, 0, FALSE)
    /\ UNCHANGED <<acked, form>>
    /\ UNCHANGED <<payments, migrated, checkout, session, tokens, inflight>>

\* POST /api/get-user-token with body {email}: the users row of that email
\* and a token signed for it
GetUserToken(e) ==
    /\ IF e = NoEmail
       THEN /\ last' = Resp("get-user-token", 400, FALSE, e, "none", 0, FALSE)
            /\ UNCHANGED tokens
       ELSE IF ~users[e].exists
       THEN /\ last' = Resp("get-user-token", 404, FALSE, e, "none", 0, FALSE)
            /\ UNCHANGED tokens
       ELSE /\ tokens' = tokens \cup {e}
            /\ last' = Resp("get-user-token", 200, users[e].paid, e,
                            users[e].package_type, 0, TRUE)
    /\ UNCHANGED <<acked, form>>
    /\ UNCHANGED <<users, payments, migrated, checkout, session, inflight>>

\* UPDATE users SET package_type = $1 WHERE email = $2
SetPackageType(tbl, email, pkg) ==
    [e \in EmailTexts |->
        IF e = email /\ tbl[e].exists
        THEN [tbl[e] EXCEPT !.package_type = pkg]
        ELSE tbl[e]]

\* POST /api/set-package with body {packageType}; bearer is the email of
\* the bearer token presented (NoEmail: none or an invalid one)
SetPackage(c, bearer, pkg) ==
    /\ bearer \in tokens \cup {NoEmail}
    /\ LET userEmail == IF bearer # NoEmail THEN bearer ELSE session[c].email
       IN IF userEmail = NoEmail
          THEN /\ last' = Resp("set-package", 401, FALSE, NoEmail, "none", 0,
                               FALSE)
               /\ UNCHANGED <<users, session>>
          ELSE /\ users' = SetPackageType(users, userEmail, pkg)
               /\ session' =
                     IF session[c].email # NoEmail
                     THEN [session EXCEPT ![c].packageType = pkg]
                     ELSE session
               /\ last' = Resp("set-package", 200, FALSE, userEmail, pkg, 0,
                               FALSE)
    /\ UNCHANGED <<acked, form>>
    /\ UNCHANGED <<payments, migrated, checkout, tokens, inflight>>

\* POST /api/migrate-database
MigrateDatabase ==
    /\ migrated' = TRUE
    /\ last' = Resp("migrate-database", 200, FALSE, NoEmail, "none", 0, FALSE)
    /\ UNCHANGED <<acked, form>>
    /\ UNCHANGED <<users, payments, checkout, session, tokens, inflight>>

\* POST /api/clean-database
CleanDatabase ==
    /\ payments' = << >>
    /\ users' = [e \in EmailTexts |-> NoUser]
    /\ last' = Resp("clean-database", 200, FALSE, NoEmail, "none", 0, FALSE)
    /\ UNCHANGED <<acked, form>>
    /\ UNCHANGED <<migrated, checkout, session, tokens, inflight>>

\* ------------------------------------------------------------ paid content
\* the email and paid flag a survey submission acts on: the session's own
\* snapshot when there is a session user, else the users row of body.email
SubmitEmail(c, bodyEmail) ==
    IF session[c].email # NoEmail THEN session[c].email ELSE bodyEmail

SubmitIsPaid(c, bodyEmail) ==
    IF session[c].email # NoEmail THEN session[c].paid
    ELSE IF bodyEmail # NoEmail THEN users[bodyEmail].paid
    ELSE FALSE

\* POST /api/submit-survey; stored is whether the INSERT went through (the
\* schema of second_survey_responses is not part of initDatabase, so an
\* insert for an email without a users row may or may not be accepted)
SubmitSurvey(c, bodyEmail, stored) ==
    /\ LET e == SubmitEmail(c, bodyEmail)
       IN IF e = NoEmail \/ ~SubmitIsPaid(c, bodyEmail)
          THEN /\ stored = FALSE
               /\ last' = Resp("submit-survey", 401, FALSE, e, "none", 0,
                               FALSE)
          ELSE /\ (users[e].exists => stored)
               /\ last' = Resp("submit-survey", IF stored THEN 200 ELSE 500,
                               FALSE, e, "none", 0, FALSE)
    /\ UNCHANGED <<acked, form>>
    /\ UNCHANGED <<users, payments, migrated, checkout, session, tokens,
                   inflight>>

\* POST /api/submit-first-survey; first_survey_responses.user_email
\* REFERENCES users (email)
SubmitFirstSurvey(c, bodyEmail) ==
    /\ LET e == SubmitEmail(c, bodyEmail)
       IN IF e = NoEmail \/ ~SubmitIsPaid(c, bodyEmail)
          THEN last' = Resp("submit-first-survey", 401, FALSE, e, "none", 0,
                            FALSE)
          ELSE last' = Resp("submit-first-survey",
                            IF users[e].exists THEN 200 ELSE 500,
                            FALSE, e, "none", 0, FALSE)
    /\ UNCHANGED <<acked, form>>
    /\ UNCHANGED <<users, payments, migrated, checkout, session, tokens,
                   inflight>>

\* GET /survey and GET /first-survey: 200 serves the page, 302 redirects
SurveyPage(op, c, queryEmail) ==
    /\ LET e == SubmitEmail(c, queryEmail)
       IN IF e = NoEmail
          THEN last' = Resp(op, 302, FALSE, e, "none", 0, FALSE)
          ELSE IF ~users[e].exists \/ ~users[e].paid
          THEN last' = Resp(op, 302, FALSE, e, "none", 0, FALSE)
          ELSE last' = Resp(op, 200, FALSE, e, "none", 0, FALSE)
    /\ UNCHANGED <<acked, form>>
    /\ UNCHANGED <<users, payments, migrated, checkout, session, tokens,
                   inflight>>

GetSurvey(c, queryEmail) == SurveyPage("get-survey", c, queryEmail)

GetFirstSurvey(c, queryEmail) == SurveyPage("get-first-survey", c, queryEmail)

\* GET /api/me behind verifyJWT and the session-fallback middleware: the
\* email is the bearer token's, else the session's, else the email query
\* parameter (sessionFallback, set only without a session user); the
\* session entitlement is overwritten with the row found for that email
Me(c, bearer, queryEmail) ==
    /\ bearer \in tokens \cup {NoEmail}
    /\ LET sessionFallback == IF session[c].email = NoEmail THEN queryEmail
                              ELSE NoEmail
           userEmail == IF bearer # NoEmail THEN bearer
                        ELSE IF session[c].email # NoEmail
                        THEN session[c].email
                        ELSE sessionFallback
       IN IF userEmail = NoEmail \/ ~users[userEmail].exists
          THEN /\ last' = Resp("me", 200, FALSE, NoEmail, "none", 0, FALSE)
               /\ UNCHANGED session
          ELSE /\ session' =
                     IF session[c].email # NoEmail
                     THEN [session EXCEPT
                             ![c].paid = users[userEmail].paid,
                             ![c].packageType = users[userEmail].package_type]
                     ELSE session
               /\ last' = Resp("me", 200, users[userEmail].paid, userEmail,
                               users[userEmail].package_type, 0, TRUE)
    /\ UNCHANGED <<acked, form>>
    /\ UNCHANGED <<users, payments, migrated, checkout, tokens, inflight>>

\* a token signed with expiresIn: '7d' runs out: jwt.verify in verifyJWT
\* rejects it from then on and the request carries no req.user
TokenExpires(e) ==
    /\ e \in tokens
    /\ tokens' = tokens \ {e}
    /\ last' = NoResp
    /\ UNCHANGED <<acked, form>>
    /\ UNCHANGED <<users, payments, migrated, checkout, session, inflight>>

\* -------------------------------------------------------------- survey form
\* sections && sections.length ? sections.length : 1
TotalSteps(n) == IF n > 0 THEN n ELSE 1

\* loadSavedData: currentStep = formData.currentSection when an entry exists
LoadSavedData(cur, stored) ==
    IF stored = 0 THEN cur ELSE stored

\* validateCurrentStep: false when no section carries the current number,
\* else whether the required fields of the section are filled in
ValidateCurrentStep(f, filled) ==
    /\ f.currentStep \in 1..f.sections
    /\ filled

\* new SurveyForm() on a page of n sections: the constructor, then init()
\* with its loadSavedData
FormConstruct(n) ==
    /\ form' = [open |-> TRUE, sections |-> n, totalSteps |-> TotalSteps(n),
                currentStep |-> LoadSavedData(1, form.stored),
                stored |-> form.stored]
    /\ UNCHANGED <<users, payments, migrated, checkout, session, tokens,
                   inflight, last, acked>>

\* nextStep()
NextStep(filled) ==
    /\ form.open
    /\ form' = IF ValidateCurrentStep(form, filled)
                  /\ form.currentStep < form.totalSteps
               THEN [form EXCEPT !.currentStep = @ + 1]
               ELSE form
    /\ UNCHANGED <<users, payments, migrated, checkout, session, tokens,
                   inflight, last, acked>>

\* previousStep()
PreviousStep ==
    /\ form.open
    /\ form' = IF form.currentStep > 1
               THEN [form EXCEPT !.currentStep = @ - 1]
               ELSE form
    /\ UNCHANGED <<users, payments, migrated, checkout, session, tokens,
                   inflight, last, acked>>

\* saveFormData(), on input and on beforeunload
SaveFormData ==
    /\ form.open
    /\ form' = [form EXCEPT !.stored = form.currentStep]
    /\ UNCHANGED <<users, payments, migrated, checkout, session, tokens,
                   inflight, last, acked>>

\* submitForm(): saveFormData(), then localStorage.removeItem once the
\* submission went through
SubmitForm(ok) ==
    /\ form.open
    /\ form' = [form EXCEPT !.stored = IF ok THEN 0 ELSE form.currentStep]
    /\ UNCHANGED <<users, payments, migrated, checkout, session, tokens,
                   inflight, last, acked>>

\* ------------------------------------------------------------------ system
\* the requests and provider events over principals E, provider sessions S
\* and request slots R; T are the email texts and P the passwords typed
AccountNext(T, P) ==
    \/ \E c \in Clients, t \in T, pw \in P : Register(c, t, pw)
    \/ \E c \in Clients, t \in T, pw \in P : Login(c, t, pw)
    \/ \E c \in Clients : Logout(c)

CheckoutNext(E, S) ==
    \/ \E c \in Clients, b \in E \cup {NoEmail}, pkg \in PackageTypes,
          m \in Methods, sid \in S : CreateCheckoutSession(c, b, pkg, m, sid)
    \/ \E m \in Methods, sid \in S : ProviderDirectCheckout(m, sid)
    \/ \E sid \in S : ProviderAdvance(sid)

\* reconciliation requests handled one at a time
ReconcileNext(S) ==
    \/ \E c \in Clients, sid \in S : Confirm(c, sid)
    \/ \E sid \in S, t \in EventTypes : Webhook(sid, t, TRUE, checkout[sid])
    \/ \E sid \in S, t \in EventTypes, e \in Emails, pkg \in PackageTypes :
          Webhook(sid, t, FALSE, ForgedObject(e, pkg))

\* reconciliation requests in flight together, interleaved at their awaits
ConcurrentNext(S, R) ==
    \/ \E r \in R, c \in Clients, sid \in S, ok \in BOOLEAN :
          ConfirmRetrieve(r, c, sid, ok)
    \/ \E r \in R : ConfirmInsert(r)
    \/ \E r \in R : ConfirmUpdate(r)
    \/ \E r \in R, sid \in S, t \in EventTypes, sg \in BOOLEAN :
          WebhookReceive(r, sid, t, sg)
    \/ \E r \in R : WebhookUpdateUser(r)
    \/ \E r \in R : WebhookUpdatePayment(r)

ManualNext(E, S) ==
    \/ \E e \in E, sid \in S :
          RecordPayment(e, sid, ManualAmount, "full", "upgrade")
    \/ \E e \in E, p \in BOOLEAN, pkg \in PackageTypes :
          UpdateUserPayment(e, p, pkg)
    \/ MigrateDatabase
    \/ CleanDatabase

\* the entitlement read and the package choice
ProfileNext(E) ==
    \/ \E e \in E \cup {NoEmail} : GetUserToken(e)
    \/ \E c \in Clients, b \in E \cup {NoEmail}, pkg \in PackageTypes :
          SetPackage(c, b, pkg)

AccessNext(E) ==
    \/ \E c \in Clients, e \in E \cup {NoEmail}, st \in BOOLEAN :
          SubmitSurvey(c, e, st)
    \/ \E c \in Clients, e \in E \cup {NoEmail} : SubmitFirstSurvey(c, e)
    \/ \E c \in Clients, e \in E \cup {NoEmail} : GetSurvey(c, e)
    \/ \E c \in Clients, e \in E \cup {NoEmail} : GetFirstSurvey(c, e)

OneEmail == {"a@x.com"}
OnePassword == {"pw1"}
OneSession == {1}

\* every handler, run to completion, for one principal and one provider
\* session
Next ==
    \/ AccountNext(OneEmail, OnePassword)
    \/ CheckoutNext(OneEmail, OneSession)
    \/ ReconcileNext(OneSession)
    \/ ManualNext(OneEmail, OneSession)
    \/ ProfileNext(OneEmail)
    \/ AccessNext(OneEmail)

Spec == Init /\ [][Next]_vars

\* reconciliation requests of one provider session in flight together
NextConc ==
    \/ AccountNext(OneEmail, OnePassword)
    \/ CheckoutNext(OneEmail, OneSession)
    \/ ConcurrentNext(OneSession, Slots)
    \/ \E e \in OneEmail, sid \in OneSession :
          RecordPayment(e, sid, ManualAmount, "full", "upgrade")
    \/ MigrateDatabase

SpecConc == Init /\ [][NextConc]_vars

\* one principal paying through several provider sessions
NextUpgrade ==
    \/ AccountNext(OneEmail, OnePassword)
    \/ CheckoutNext(OneEmail, SessionIds)
    \/ ReconcileNext(SessionIds)

SpecUpgrade == Init /\ [][NextUpgrade]_vars

\* two principals, their sessions and the gates of the paid content
NextAccess ==
    \/ AccountNext(EmailTexts, Passwords)
    \/ \E e \in EmailTexts \cup {NoEmail}, p \in BOOLEAN, pkg \in PackageTypes :
          UpdateUserPayment(e, p, pkg)
    \/ CleanDatabase
    \/ ProfileNext(EmailTexts)
    \/ AccessNext(Emails)

SpecAccess == Init /\ [][NextAccess]_vars

\* the payments table over several checkout sessions of one principal:
\* every handler that writes or deletes payments rows
NextLedger ==
    \/ \E c \in Clients, t \in OneEmail, pw \in OnePassword : Register(c, t, pw)
    \/ \E c \in Clients, m \in Methods, sid \in SessionIds :
          CreateCheckoutSession(c, NoEmail, "full", m, sid)
    \/ \E sid \in SessionIds : ProviderAdvance(sid)
    \/ \E c \in Clients, sid \in SessionIds : Confirm(c, sid)
    \/ \E sid \in SessionIds :
          Webhook(sid, "checkout.session.completed", TRUE, checkout[sid])
    \/ \E e \in OneEmail, sid \in SessionIds :
          RecordPayment(e, sid, ManualAmount, "full", "upgrade")
    \/ MigrateDatabase
    \/ CleanDatabase

SpecLedger == Init /\ [][NextLedger]_vars

\* two principals and the callers of confirm: who is logged in on the
\* request that reconciles a checkout
NextCaller ==
    \/ AccountNext(Emails, OnePassword)
    \/ \E c \in Clients, b \in Emails \cup {NoEmail}, pkg \in PackageTypes,
          m \in Methods, sid \in OneSession :
          CreateCheckoutSession(c, b, pkg, m, sid)
    \/ \E sid \in OneSession : ProviderAdvance(sid)
    \/ \E c \in Clients, sid \in OneSession : Confirm(c, sid)
    \/ \E c \in Clients, b \in Emails \cup {NoEmail},
          q \in Emails \cup {NoEmail} : Me(c, b, q)
    \/ \E e \in Emails : TokenExpires(e)

SpecCaller == Init /\ [][NextCaller]_vars

\* checkouts whose package, price metadata and amount are not those of
\* /api/create-checkout-session, confirmed for one principal
NextClassify ==
    \/ \E c \in Clients, t \in OneEmail, pw \in OnePassword : Register(c, t, pw)
    \/ \E sid \in OneSession, e \in OneEmail,
          pkg \in PackageTypes \cup {"none"}, m \in Methods,
          meta \in {<< << >>, << >> >>,
                    <<NumberToString(FullPrice), NumberToString(AchFee)>>},
          amount \in {FullPrice + AchFee, UpgradePrice + AchFee, UpgradePrice,
                      DirectAmount} :
          ProviderCustomCheckout(sid, e, pkg, m, meta[1], meta[2], amount)
    \/ \E sid \in OneSession : ProviderAdvance(sid)
    \/ \E c \in Clients, sid \in OneSession : Confirm(c, sid)

SpecClassify == Init /\ [][NextClassify]_vars

\* the survey form of one browser tab over page loads
NextForm ==
    \/ \E n \in 0..MaxSections : FormConstruct(n)
    \/ \E filled \in BOOLEAN : NextStep(filled)
    \/ PreviousStep
    \/ SaveFormData
    \/ \E ok \in BOOLEAN : SubmitForm(ok)

SpecForm == Init /\ [][NextForm]_vars

\* ------------------------------------------------------------------ properties
\* the provider status is one confirm accepts for this checkout
Accepted(co) ==
    \/ co.payment_status = "paid"
    \/ co.method = "ach" /\ co.payment_status \in {"processing", "unpaid"}

\* the checkout carries neither client_reference_id nor metadata.email
NoIdentity(co) ==
    co.client_reference_id = NoEmail /\ co.meta_email = NoEmail

\* the email a checkout with an identity names
OwnerOf(co) ==
    IF co.client_reference_id # NoEmail THEN co.client_reference_id
    ELSE co.meta_email

\* C1: after any number of confirm calls, one after the other, for a session
\* the provider reports paid and whose checkout names a registered
\* principal, exactly one payments row holds that session id and the
\* principal's paid flag is true.
C1_PaidConfirmOneRow ==
    (/\ last.op = "confirm" /\ last.code = 200
     /\ checkout[last.sid].payment_status = "paid"
     /\ OwnerOf(checkout[last.sid]) \in Emails
     /\ users[OwnerOf(checkout[last.sid])].exists)
    => /\ Cardinality(RowsOf(payments, last.sid)) = 1
       /\ users[OwnerOf(checkout[last.sid])].paid

\* a confirm call answered for a paid session whose row was stored by an
\* earlier call (while the transfer was still pending)
C1_Witness ==
    /\ last.op = "confirm" /\ last.code = 200 /\ last.user
    /\ checkout[last.sid].payment_status = "paid"
    /\ users[OwnerOf(checkout[last.sid])].exists
    /\ users[OwnerOf(checkout[last.sid])].paid
    /\ Cardinality(RowsOf(payments, last.sid)) = 1
    /\ \A i \in RowsOf(payments, last.sid) :
          /\ payments[i].status = "processing"
          /\ payments[i].amount_cents = checkout[last.sid].amount_total

\* C2: with reconciliations of one session id in flight together and
\* interleaved at every store operation, at most one payments row per
\* session id is ever stored; a confirm that is past its insert finds the
\* row of its session stored (its own or the first writer's); and every
\* reconciliation that finishes leaves the principal paid.
C2_ConcurrentOneRow ==
    /\ \A sid \in SessionIds : Cardinality(RowsOf(payments, sid)) <= 1
    /\ \A r \in Slots :
          (inflight[r].kind = "confirm" /\ inflight[r].pc = "update")
          => Cardinality(RowsOf(payments, inflight[r].sid)) = 1
    /\ (last.op = "confirm" /\ last.code = 200 /\ last.user)
          => users[OwnerOf(checkout[last.sid])].paid
    /\ (last.op = "webhook" /\ last.paid)
          => users[OwnerOf(checkout[last.sid])].paid

\* two confirm requests of the same session, both past their insert, one
\* row stored
C2_Witness ==
    /\ inflight[1].kind = "confirm" /\ inflight[1].pc = "update"
    /\ inflight[2].kind = "confirm" /\ inflight[2].pc = "update"
    /\ inflight[1].sid = inflight[2].sid
    /\ Cardinality(RowsOf(payments, inflight[1].sid)) = 1

\* C3: a confirm call for a checkout whose status is not accepted stores no
\* payments row, changes no users row and no session, and answers
\* paid = false.
C3_UnacceptedNoEffect ==
    [][(/\ last'.op = "confirm"
        /\ checkout[last'.sid].exists
        /\ ~Accepted(checkout[last'.sid]))
       => /\ payments' = payments
          /\ users' = users
          /\ session' = session
          /\ last'.code = 200
          /\ last'.paid = FALSE]_vars

\* a card checkout of a registered principal, still unpaid, was confirmed
C3_Witness ==
    /\ last.op = "confirm" /\ last.code = 200 /\ ~last.paid
    /\ checkout[last.sid].method = "card"
    /\ checkout[last.sid].payment_status = "unpaid"
    /\ OwnerOf(checkout[last.sid]) \in Emails
    /\ users[OwnerOf(checkout[last.sid])].exists

\* C4: confirming a bank-transfer checkout the provider reports as
\* processing, with no row stored yet, sets the principal paid and stores one
\* row with status processing; a webhook delivery that reports the session
\* paid sets the status of the rows of that session to completed and adds
\* or removes no row.
C4_AchProcessingThenWebhook ==
    [][/\ (/\ last'.op = "confirm" /\ last'.user
           /\ checkout[last'.sid].method = "ach"
           /\ checkout[last'.sid].payment_status = "processing"
           /\ users[OwnerOf(checkout[last'.sid])].exists
           /\ RowsOf(payments, last'.sid) = {})
          => /\ users'[OwnerOf(checkout[last'.sid])].paid
             /\ Cardinality(RowsOf(payments', last'.sid)) = 1
             /\ \A i \in RowsOf(payments', last'.sid) :
                   payments'[i].status = "processing"
       /\ (last'.op = "webhook" /\ last'.paid)
          => /\ Len(payments') = Len(payments)
             /\ \A i \in 1..Len(payments) :
                   payments'[i] =
                      IF payments[i].stripe_session_id = last'.sid
                      THEN [payments[i] EXCEPT !.status = "completed"]
                      ELSE payments[i]]_vars

\* the paid webhook of a bank transfer was handled and the row confirm
\* stored for it is completed
C4_Witness ==
    /\ last.op = "webhook" /\ last.paid
    /\ checkout[last.sid].method = "ach"
    /\ Cardinality(RowsOf(payments, last.sid)) = 1
    /\ \A i \in RowsOf(payments, last.sid) :
          /\ payments[i].status = "completed"
          /\ payments[i].amount_cents = checkout[last.sid].amount_total
    /\ users[OwnerOf(checkout[last.sid])].paid

\* C5: when the upgrade checkout (base price 130000) of a principal who
\* holds a form-filling payment is reported paid and confirmed, the
\* principal's package_type is full, the principal has two payments rows
\* and the second has payment_type upgrade.
C5_UpgradeScenario ==
    (/\ last.op = "confirm" /\ last.code = 200 /\ last.user
     /\ checkout[last.sid].base_price = <<1, 3, 0, 0, 0, 0>>
     /\ checkout[last.sid].payment_status = "paid"
     /\ users[last.email].exists
     /\ \E i \in RowsOfEmail(payments, last.email) :
           /\ payments[i].stripe_session_id # last.sid
           /\ payments[i].package_type = "form-filling"
           /\ payments[i].status = "completed")
    => /\ users[last.email].package_type = "full"
       /\ Cardinality(RowsOfEmail(payments, last.email)) = 2
       /\ payments[2].payment_type = "upgrade"

\* C6: confirming the paid form-filling card checkout (base price 29900) of
\* a registered, unpaid principal without payments: the checkout was charged
\* 30797, the principal is paid with package form-filling, and the one
\* payments row has amount_cents 30797 and payment_type initial.
C6_InitialScenario ==
    [][(/\ last'.op = "confirm" /\ last'.user
        /\ checkout[last'.sid].package_type = "form-filling"
        /\ checkout[last'.sid].method = "card"
        /\ checkout[last'.sid].base_price = <<2, 9, 9, 0, 0>>
        /\ checkout[last'.sid].payment_status = "paid"
        /\ users[last'.email].exists
        /\ ~users[last'.email].paid
        /\ payments = << >>)
       => /\ checkout[last'.sid].amount_total = 30797
          /\ users'[last'.email].paid
          /\ users'[last'.email].package_type = "form-filling"
          /\ Len(payments') = 1
          /\ payments'[1].user_email = last'.email
          /\ payments'[1].stripe_session_id = last'.sid
          /\ payments'[1].amount_cents = 30797
          /\ payments'[1].payment_type = "initial"]_vars

\* the form-filling card checkout was confirmed and its row stored
C6_Witness ==
    /\ last.op = "confirm" /\ last.user
    /\ checkout[last.sid].package_type = "form-filling"
    /\ checkout[last.sid].method = "card"
    /\ checkout[last.sid].base_price = <<2, 9, 9, 0, 0>>
    /\ users[last.email].paid
    /\ users[last.email].package_type = "form-filling"
    /\ Len(payments) = 1
    /\ payments[1].amount_cents = 30797
    /\ payments[1].payment_type = "initial"
    /\ payments[1].status = "completed"

\* C7: once a row is stored for a session id, an attempt to record a
\* payment for that id, through confirm or /api/record-payment, leaves
\* exactly that one row with its amount, package type and payment type.
C7_FirstWriterWins ==
    [][\A sid \in SessionIds :
          (/\ RowsOf(payments, sid) # {}
           /\ last'.op \in {"confirm", "record-payment"}
           /\ last'.sid = sid)
          => /\ Cardinality(RowsOf(payments', sid)) = 1
             /\ RowsOf(payments', sid) = RowsOf(payments, sid)
             /\ \A i \in RowsOf(payments, sid) :
                   /\ payments'[i].amount_cents = payments[i].amount_cents
                   /\ payments'[i].package_type = payments[i].package_type
                   /\ payments'[i].payment_type = payments[i].payment_type
      ]_vars

\* on the migrated schema a manual record of another amount was refused for
\* a session whose row confirm had stored
C7_Witness ==
    /\ last.op = "record-payment" /\ last.code = 500
    /\ migrated
    /\ users[last.email].exists
    /\ Cardinality(RowsOf(payments, last.sid)) = 1
    /\ \A i \in RowsOf(payments, last.sid) :
          /\ payments[i].amount_cents # ManualAmount
          /\ payments[i].amount_cents = checkout[last.sid].amount_total

\* C8: a confirm call for a checkout with an accepted status and neither
\* client_reference_id nor metadata.email stores no payments row and changes
\* no users row and no session.
C8_NoIdentityNoEffect ==
    [][(/\ last'.op = "confirm"
        /\ checkout[last'.sid].exists
        /\ Accepted(checkout[last'.sid])
        /\ NoIdentity(checkout[last'.sid]))
       => /\ payments' = payments
          /\ users' = users
          /\ session' = session]_vars

\* a paid checkout without identity was confirmed while a principal is
\* registered and logged in
C8_Witness ==
    /\ last.op = "confirm" /\ last.code = 200
    /\ checkout[last.sid].payment_status = "paid"
    /\ NoIdentity(checkout[last.sid])
    /\ users["a@x.com"].exists /\ ~users["a@x.com"].paid
    /\ session["browser"].email = "a@x.com"
    /\ payments = << >>

\* C9: a confirm call for a checkout with an accepted status and no
\* identity is never answered as a successful, paid confirmation.
C9_MissingIdentitySurfaced ==
    (/\ last.op = "confirm"
     /\ checkout[last.sid].exists
     /\ Accepted(checkout[last.sid])
     /\ NoIdentity(checkout[last.sid]))
    => ~(last.code = 200 /\ last.paid)

\* C10: a survey submission is stored, and a survey page served, only if
\* the users row of the acting email has paid = true at that time.
C10_GateOnStore ==
    (/\ last.op \in {"submit-survey", "submit-first-survey", "get-survey",
                     "get-first-survey"}
     /\ last.code = 200)
    => /\ users[last.email].exists
       /\ users[last.email].paid

\* C11: a webhook delivery whose signature fails verification is answered
\* with status 400 and changes no users row and no payments row; every
\* webhook step that changes the store is the handling of a delivery signed
\* by the provider.
C11_WebhookVerifiesSignature ==
    [][/\ \A sid \in SessionIds, t \in EventTypes, e \in Emails,
             pkg \in PackageTypes :
             Webhook(sid, t, FALSE, ForgedObject(e, pkg))
             => /\ last'.code = 400
                /\ users' = users
                /\ payments' = payments
       /\ (last'.op = "webhook" /\ (users' # users \/ payments' # payments))
          => \E sid \in SessionIds, t \in EventTypes :
                Webhook(sid, t, TRUE, checkout[sid])]_vars

\* a forged delivery naming a registered, unpaid principal and a session
\* whose row is still processing was rejected
C11_Witness ==
    /\ last.op = "webhook" /\ last.code = 400
    /\ users["a@x.com"].exists /\ ~users["a@x.com"].paid
    /\ Cardinality(RowsOf(payments, last.sid)) = 1
    /\ \A i \in RowsOf(payments, last.sid) : payments[i].status = "processing"

\* C12: handling the same checkout.session.completed delivery again, right
\* after it was handled, changes no users row and no payments row; and no
\* webhook step ever adds a payments row.
C12_WebhookIdempotent ==
    [][/\ (/\ last.op = "webhook" /\ last.paid
           /\ last'.op = "webhook" /\ last'.paid
           /\ last'.sid = last.sid)
          => /\ users' = users
             /\ payments' = payments
       /\ (last'.op = "webhook") => Len(payments') = Len(payments)]_vars

\* the completed event of a bank transfer was handled: its principal is paid
\* with the package of the checkout and its row is completed, the state a
\* duplicate delivery meets
C12_Witness ==
    /\ last.op = "webhook" /\ last.paid /\ last.code = 200
    /\ users[OwnerOf(checkout[last.sid])].paid
    /\ users[OwnerOf(checkout[last.sid])].package_type =
          checkout[last.sid].package_type
    /\ RowsOf(payments, last.sid) # {}
    /\ \A i \in RowsOf(payments, last.sid) : payments[i].status = "completed"

\* the letters of an email text without their case
CaseFold(t) == IF t \in MixedCaseEmails THEN "a@x.com" ELSE t

\* C13: after every step at most one users row exists per case-folded
\* email; and a registration for an email that exists in any letter case is
\* answered 400 (already registered) and leaves every users row, with its
\* credential hash, paid and package_type, unchanged.
C13_OnePrincipalPerEmail ==
    [][/\ \A k1, k2 \in EmailTexts :
             (users'[k1].exists /\ users'[k2].exists
              /\ CaseFold(k1) = CaseFold(k2)) => k1 = k2
       /\ \A c \in Clients, t \in EmailTexts, pw \in Passwords :
             (/\ Register(c, t, pw)
              /\ \E k \in EmailTexts :
                    users[k].exists /\ CaseFold(k) = CaseFold(t))
             => /\ last'.code = 400
                /\ users' = users]_vars

\* a registration typed with a capital letter and another password was
\* refused for a principal who is already paid
C13_Witness ==
    /\ last.op = "register" /\ last.code = 400
    /\ last.email = "A@x.com"
    /\ users["a@x.com"].exists /\ users["a@x.com"].paid
    /\ users["a@x.com"].package_type = "form-filling"
    /\ users["a@x.com"].password_hash = BcryptHash("pw1")
    /\ ~users["A@x.com"].exists

\* C14: a principal read through /api/get-user-token right after
\* /api/update-user-payment set (paid, packageType) on a registered email
\* returns exactly that paid and package_type, (true, full) included; and
\* the same update applied again changes no users row.
C14_EntitlementRoundTrip ==
    [][/\ (/\ last.op = "update-user-payment" /\ last.code = 200
           /\ users[last.email].exists
           /\ last'.op = "get-user-token"
           /\ last'.email = last.email)
          => /\ last'.code = 200
             /\ last'.paid = last.paid
             /\ last'.pkg = last.pkg
       /\ (/\ last.op = "update-user-payment" /\ last.code = 200
           /\ last'.op = "update-user-payment"
           /\ last'.email = last.email
           /\ last'.paid = last.paid
           /\ last'.pkg = last.pkg)
          => users' = users]_vars

\* the principal read returned paid = true, which only an entitlement
\* update stores here, with the package form-filling
C14_Witness ==
    /\ last.op = "get-user-token" /\ last.code = 200
    /\ last.paid /\ last.pkg = "form-filling"
    /\ users[last.email].paid
    /\ users[last.email].package_type = "form-filling"

\* C15: a confirm call that applies a payment applies it to the email of
\* the user logged in on the calling session.
C15_EmailMatching ==
    (last.op = "confirm" /\ last.code = 200 /\ last.user)
    => \E c \in Clients : session[c].email = last.email

\* C16: the paid flag and the package_type of an existing principal change
\* only in a step of confirm, of the webhook or of
\* /api/update-user-payment.
C16_EntitlementFrame ==
    [][\A e \in EmailTexts :
          (/\ users[e].exists /\ users'[e].exists
           /\ \/ users'[e].paid # users[e].paid
              \/ users'[e].package_type # users[e].package_type)
          => last'.op \in {"confirm", "webhook", "update-user-payment"}]_vars

\* C17: a confirm call whose payments insert failed for another reason than
\* a duplicate session id does not answer paid = true: whenever confirm
\* answers paid = true for a principal, a payments row of the session is
\* stored.
C17_PersistenceFailureSurfaced ==
    (last.op = "confirm" /\ last.code = 200 /\ last.paid /\ last.user)
    => RowsOf(payments, last.sid) # {}

\* C18: in confirm the provider retrieval precedes every local write: the
\* step that retrieves writes nothing, every later step of a confirm request
\* works on a session the provider returned, and a call whose retrieval
\* failed is answered 500 with users, payments and session unchanged.
C18_RetrieveBeforeWrites ==
    [][/\ (last'.op = "confirm"
           /\ (~checkout[last'.sid].exists \/ last'.code = 500))
          => /\ last'.code = 500
             /\ users' = users
             /\ payments' = payments
             /\ session' = session
       /\ \A r \in Slots :
             (inflight[r] = Idle /\ inflight'[r].kind = "confirm")
             => /\ users' = users
                /\ payments' = payments
                /\ session' = session
       /\ \A r \in Slots :
             (inflight[r].kind = "confirm" /\ inflight'[r] # inflight[r])
             => /\ checkout[inflight[r].sid].exists
                /\ inflight[r].pstatus \in {"unpaid", "processing", "paid"}]_vars

\* the retrieval failed for the accepted checkout of a registered, unpaid
\* principal who is logged in, and nothing was stored
C18_Witness ==
    /\ last.op = "confirm" /\ last.code = 500
    /\ checkout[last.sid].exists
    /\ Accepted(checkout[last.sid])
    /\ OwnerOf(checkout[last.sid]) = "a@x.com"
    /\ users["a@x.com"].exists /\ ~users["a@x.com"].paid
    /\ session["browser"].email = "a@x.com" /\ ~session["browser"].paid
    /\ payments = << >>

\* C19: a payments row with status processing becomes completed only in a
\* webhook step; a confirm call for its session id, also once the provider
\* reports the session paid, leaves the status processing.
C19_CompletedOnlyByWebhook ==
    [][/\ \A i \in 1..Len(payments) :
             (/\ payments[i].status = "processing"
              /\ i <= Len(payments')
              /\ payments'[i].status = "completed")
             => last'.op = "webhook"
       /\ (last'.op = "confirm")
          => \A i \in RowsOf(payments, last'.sid) :
                payments[i].status = "processing"
                => /\ i <= Len(payments')
                   /\ payments'[i].status = "processing"]_vars

\* the settled bank transfer was confirmed again with its principal logged
\* in, and the row stored while it was pending is still processing
C19_Witness ==
    /\ last.op = "confirm" /\ last.code = 200 /\ last.paid /\ last.user
    /\ checkout[last.sid].method = "ach"
    /\ checkout[last.sid].payment_status = "paid"
    /\ session["browser"].email = last.email /\ session["browser"].paid
    /\ Len(payments) = 1
    /\ payments[1].stripe_session_id = last.sid
    /\ payments[1].status = "processing"

\* C20: in every step but the purge /api/clean-database every stored
\* payments row stays stored with its owner email, session id, amount,
\* package type and payment type, and its status either stays or goes from
\* processing to completed; only the purge removes rows.
C20_PaymentsAppendOnly ==
    [][(last'.op # "clean-database")
       => /\ Len(payments') >= Len(payments)
          /\ \A i \in 1..Len(payments) :
                /\ payments'[i].user_email = payments[i].user_email
                /\ payments'[i].stripe_session_id = payments[i].stripe_session_id
                /\ payments'[i].amount_cents = payments[i].amount_cents
                /\ payments'[i].package_type = payments[i].package_type
                /\ payments'[i].payment_type = payments[i].payment_type
                /\ \/ payments'[i].status = payments[i].status
                   \/ /\ payments[i].status = "processing"
                      /\ payments'[i].status = "completed"]_vars

\* two rows are stored; the webhook completed the second, which was
\* processing, and the first, recorded by hand, is as it was
C20_Witness ==
    /\ last.op = "webhook" /\ last.paid
    /\ Len(payments) = 2
    /\ payments[1].stripe_session_id # last.sid
    /\ payments[1].amount_cents = ManualAmount
    /\ payments[2].stripe_session_id = last.sid
    /\ payments[2].status = "completed"
    /\ payments[2].amount_cents = checkout[last.sid].amount_total

\* C21: a confirm call that reconciles a checkout of email E refreshes the
\* caller's session (paid = true, packageType = the reconciled package)
\* exactly when the session's user email is E, leaves the session of a
\* caller logged in as another email unchanged, and returns the paid flag
\* and package that the users row of E holds after the call.
C21_SessionRefreshOnMatch ==
    [][(last'.op = "confirm" /\ last'.code = 200 /\ last'.user)
       => /\ \A c \in Clients :
                IF session[c].email = last'.email
                THEN session'[c] = [email |-> last'.email, paid |-> TRUE,
                                    packageType |-> last'.pkg]
                ELSE session'[c] = session[c]
          /\ users[last'.email].exists
             => /\ users'[last'.email].paid = last'.paid
                /\ users'[last'.email].package_type = last'.pkg]_vars

\* the checkout of a@x.com was confirmed by a caller logged in as b@x.com:
\* a@x.com is paid, the caller's session still says unpaid
C21_Witness ==
    /\ last.op = "confirm" /\ last.code = 200 /\ last.user
    /\ last.email = "a@x.com"
    /\ users["a@x.com"].paid
    /\ users["b@x.com"].exists /\ ~users["b@x.com"].paid
    /\ session["browser"].email = "b@x.com"
    /\ ~session["browser"].paid

\* the number a digit text denotes
ValueOf(ds) ==
    LET RECURSIVE V(_)
        V(k) == IF k = 0 THEN 0 ELSE 10 * V(k - 1) + ds[k]
    IN V(Len(ds))

\* C22: every checkout /api/create-checkout-session creates is charged the
\* base price of its package and of the caller's paid state (29900, 130000
\* or 159900) plus the surcharge, 3% of the base price rounded to the
\* nearest cent for card and 50 cents for ach; and the base price and fee
\* written into its metadata are these two numbers, so that their sum is
\* amount_total.
C22_ChargedAmount ==
    [][(last'.op = "create-checkout" /\ last'.code = 200)
       => LET co == checkout'[last'.sid]
              base == IF co.package_type = "form-filling"
                      THEN (IF \E c \in Clients :
                                  session[c].email # NoEmail /\ session[c].paid
                            THEN 130000 ELSE 29900)
                      ELSE 159900
              fee == co.amount_total - base
          IN /\ co.method = "card"
                => /\ 100 * fee - 3 * base <= 50
                   /\ 3 * base - 100 * fee <= 50
             /\ co.method = "ach" => fee = 50
             /\ ValueOf(co.base_price) = base
             /\ ValueOf(co.processing_fee) = fee
             /\ ValueOf(co.base_price) + ValueOf(co.processing_fee)
                   = co.amount_total]_vars

\* the card checkout of a paid caller for form-filling exists: 130000 plus
\* 3900
C22_Witness ==
    \E s \in SessionIds :
       /\ checkout[s].exists
       /\ checkout[s].method = "card"
       /\ checkout[s].package_type = "form-filling"
       /\ checkout[s].base_price = <<1, 3, 0, 0, 0, 0>>
       /\ checkout[s].processing_fee = <<3, 9, 0, 0>>
       /\ checkout[s].amount_total = 133900

\* C23: whatever package type, amount and price metadata an accepted
\* checkout of a registered principal carries, confirm stores its row with
\* payment_type initial or upgrade and sets the principal paid; when the
\* amount is neither the total expected from the metadata nor the upgrade
\* total, the payment_type is initial.
C23_ClassificationNeverRejects ==
    [][(/\ last'.op = "confirm" /\ last'.code = 200 /\ last'.user
        /\ users[last'.email].exists
        /\ RowsOf(payments, last'.sid) = {})
       => LET co == checkout[last'.sid]
              fee == ValueOf(co.processing_fee)
              expected == ValueOf(co.base_price) + fee
          IN /\ Cardinality(RowsOf(payments', last'.sid)) = 1
             /\ users'[last'.email].paid
             /\ \A i \in RowsOf(payments', last'.sid) :
                   /\ payments'[i].payment_type \in {"initial", "upgrade"}
                   /\ payments'[i].amount_cents = co.amount_total
                   /\ (co.amount_total # expected
                       /\ co.amount_total # 130000 + fee)
                      => payments'[i].payment_type = "initial"]_vars

\* a paid checkout of 5000 cents with price metadata for 159950 was
\* confirmed: recorded as initial, principal paid
C23_Witness ==
    /\ last.op = "confirm" /\ last.code = 200 /\ last.user
    /\ checkout[last.sid].amount_total = DirectAmount
    /\ checkout[last.sid].base_price # << >>
    /\ users[last.email].paid
    /\ Cardinality(RowsOf(payments, last.sid)) = 1
    /\ \A i \in RowsOf(payments, last.sid) :
          /\ payments[i].payment_type = "initial"
          /\ payments[i].amount_cents = DirectAmount

\* C24: a confirm call for a session whose payments row is already stored
\* changes no field of any principal: it neither rewrites package_type nor
\* sets a revoked paid flag back to true.
C24_RedriveChangesNothing ==
    [][(/\ last'.op = "confirm" /\ last'.code = 200 /\ last'.user
        /\ RowsOf(payments, last'.sid) # {})
       => users' = users]_vars

\* C25: for a bank-transfer session, once the webhook delivery reporting it
\* paid has been handled, then whenever no request is in flight every
\* payments row of that session has status completed, however the webhook
\* was interleaved with confirm calls.
C25_AchRaceCompleted ==
    \A sid \in acked :
       (\A r \in Slots : inflight[r] = Idle)
       => \A i \in RowsOf(payments, sid) : payments[i].status = "completed"

\* C26: whenever confirm or the webhook has just set a principal paid for
\* provider session S, a payments row with stripe_session_id = S is stored.
C26_PaidImpliesRow ==
    (/\ last.op \in {"confirm", "webhook"} /\ last.code = 200 /\ last.paid
     /\ OwnerOf(checkout[last.sid]) \in Emails
     /\ users[OwnerOf(checkout[last.sid])].paid)
    => RowsOf(payments, last.sid) # {}

\* C27: after a GET /api/me, the paid and packageType held in the caller's
\* session equal the store's values for the session's own email, whichever
\* bearer token or email query parameter the request carried.
C27_MeSessionOwnEntitlement ==
    (last.op = "me" /\ last.code = 200 /\ last.user)
    => \A c \in Clients :
          (session[c].email # NoEmail /\ users[session[c].email].exists)
          => /\ session[c].paid = users[session[c].email].paid
             /\ session[c].packageType =
                   users[session[c].email].package_type

\* C28: a confirm call answers with a signed token for email E only when
\* the caller was already authenticated as E before the call, by its
\* session or by a valid bearer token for E that it holds.
C28_TokenOnlyToOwner ==
    [][(last'.op = "confirm" /\ last'.code = 200 /\ last'.user)
       => \/ last'.email \in tokens
          \/ \E c \in Clients : session[c].email = last'.email]_vars

\* C29: POST /api/create-checkout-session answers 401 and leaves the
\* provider untouched for a caller with no session user (and then no valid
\* bearer token); when it creates a session, the caller is the session user,
\* or without a session the holder of a valid token, and the new provider
\* session carries the caller's email as client_reference_id and as
\* metadata.email, so that it resolves to that identity at reconciliation.
C29_CheckoutForAuthenticatedCaller ==
    [][last'.op = "create-checkout"
       => /\ last'.code \in {200, 401}
          /\ last'.code = 401
             => /\ \A c \in Clients : session[c].email = NoEmail
                /\ checkout' = checkout
          /\ last'.code = 200
             => /\ last'.email # NoEmail
                /\ \A c \in Clients :
                      IF session[c].email # NoEmail
                      THEN last'.email = session[c].email
                      ELSE last'.email \in tokens
                /\ ~checkout[last'.sid].exists
                /\ checkout'[last'.sid].exists
                /\ checkout'[last'.sid].client_reference_id = last'.email
                /\ checkout'[last'.sid].meta_email = last'.email
                /\ PaidEmail(checkout'[last'.sid]) = last'.email
                /\ \A s \in SessionIds \ {last'.sid} :
                      checkout'[s] = checkout[s]]_vars

\* a checkout session was created for a caller without a session user who
\* presented a valid bearer token
C29_Witness ==
    /\ last.op = "create-checkout" /\ last.code = 200
    /\ \A c \in Clients : session[c].email = NoEmail
    /\ checkout[last.sid].exists
    /\ checkout[last.sid].meta_email = last.email
    /\ last.email \in Emails

\* C30: in a constructed survey form, after any sequence of nextStep,
\* previousStep and loadSavedData, 1 <= currentStep <= totalSteps.
C30_StepWithinRange ==
    form.open => (1 <= form.currentStep /\ form.currentStep <= form.totalSteps)

====
